---- MODULE Spec2Model ----
(***************************************************************************)
(* Toque de Casa: the local key-value store (AsyncStorage), the security,  *)
(* notification and alibi services that write to it, the secret gesture of *)
(* the recipes screen, the stack navigation and the risk assessment.       *)
(***************************************************************************)
EXTENDS Integers, Sequences, FiniteSets, TLC

(***************************************************************************)
(* Bounds of the model.                                                    *)
(***************************************************************************)
\* largest value of the clock (ms) where the auto-lock is exercised
MaxClock == 300002
\* notifications sent in one run
MaxSends == 2
\* alibis created in one run
MaxAlibis == 1
\* indices Math.random() may pick in a list of culinary phrases
MaxPhrase == 1
\* largest value of the clock (ms) while the recipes screen is used
MaxHoldClock == 7500
\* setTimeout calls made by the recipes screen
MaxTimers == 2
\* screens pushed over the tabs by the navigation buttons
MaxStack == 2
\* achievements saved by the quiz
MaxAchievements == 1

(***************************************************************************)
(* Program constants.                                                      *)
(***************************************************************************)
\* security.ts:61 autoLockTime: 5 (minutes)
DefaultAutoLockTime == 5
\* security.ts:184 "/ 1000 / 60": milliseconds in a minute
MsPerMinute == 1000 * 60
\* notificationService.ts:405 the history keeps 50 notifications
HistoryLimit == 50
\* receitas.tsx:117 setTimeout(..., 5000)
HoldMs == 5000
\* quiz.tsx:183 percentage >= 80
AchievementPercentage == 80

VARIABLES
  storage,              \* AsyncStorage: a function from the keys present to their values
  now,                  \* Date.now(), in ms
  config,               \* SecurityService.config: {} for null, {c} for a SecurityConfig c
  isAuthenticated,      \* SecurityService.isAuthenticated
  allKeys,              \* panicMode's local allKeys between its two awaits
  pcPanic,              \* where panicMode is: "idle" or "remove"
  ret,                  \* the last call of a service that was recorded: name, argument, return value, time
  settings,             \* NotificationService.settings
  notificationHistory,  \* NotificationService.notificationHistory (in memory)
  scheduled,            \* the contents sendSecureNotification handed to scheduleNotificationAsync
  alibis,               \* AlibiService.alibis (in memory)
  storageAtCall,        \* history: storage when the panicMode in flight read the keys
  lastSetCode,          \* history: argument of the last completed setPanicCode, "" if none
  preWipe,              \* history: what existed when the last panicMode completed
  tab,                  \* the tab of the (tabs) navigator that is shown
  modalVisible,         \* BookScreen.modalVisible
  selectedChapter,      \* BookScreen.selectedChapter: "" for null
  stack,                \* the screens pushed over the tabs, each with its component state
  alert,                \* the Alert.alert dialog that is open
  isHolding,            \* RecipesScreen.isHolding
  holdTimer,            \* RecipesScreen.holdTimer.current: {} for null, {id} for a timer id
  startTime,            \* RecipesScreen.startTime.current
  timers,               \* the setTimeout calls made: id -> [due, status]
  calls                 \* the handleSecretAccess calls made: timer id -> where the call is

svcVars == <<storage, now, config, isAuthenticated, allKeys, pcPanic, ret, settings,
             notificationHistory, scheduled, alibis, storageAtCall, lastSetCode, preWipe>>

appVars == <<tab, modalVisible, selectedChapter, stack, alert,
             isHolding, holdTimer, startTime, timers, calls>>

vars == <<svcVars, appVars>>

(***************************************************************************)
(* Strings the code compares, and the digest.  A panic code typed by the   *)
(* user is Plain(c); Crypto.digestStringAsync(SHA256, c) is Digest(c), a   *)
(* hex string that is injective in c and is never a typed code.            *)
(***************************************************************************)
Codes == {"911911", "1234"}

\* the decimal digits, for numbers written into strings
Digits == <<"0", "1", "2", "3", "4", "5", "6", "7", "8", "9">>

Plain(c) == <<"text", c>>

Digest(c) == <<"sha256", c>>

(***************************************************************************)
(* AsyncStorage                                                            *)
(***************************************************************************)
Has(k) == k \in DOMAIN storage

SetItem(st, k, v) == [x \in DOMAIN st \cup {k} |-> IF x = k THEN v ELSE st[x]]

MultiRemove(st, ks) == [x \in DOMAIN st \ ks |-> st[x]]

(***************************************************************************)
(* SecurityService                                                         *)
(***************************************************************************)
DefaultConfig(t) ==
  [panicCode |-> Plain("911911"),
   biometricEnabled |-> FALSE,
   autoLockTime |-> DefaultAutoLockTime,
   lastAccessTime |-> t,
   secretPattern |-> <<"especiais", "hold", "5000">>]

Cfg == CHOOSE c \in config : TRUE

\* JSON.stringify / JSON.parse of a SecurityConfig: strings, numbers, booleans
\* and an array of strings survive the round trip unchanged
ConfigToJSON(c) == c

ConfigFromJSON(j) == j

SaveConfig(st, cfg) ==
  IF cfg # {} THEN SetItem(st, "securityConfig", ConfigToJSON(CHOOSE c \in cfg : TRUE))
  ELSE st

\* what a call leaves in ret; val is FALSE for a call that returns nothing
Return(op, arg, val) == [op |-> op, arg |-> arg, val |-> val, at |-> now]

Initialize ==
  /\ IF Has("securityConfig")
     THEN /\ config' = {ConfigFromJSON(storage["securityConfig"])}
          /\ storage' = storage
     ELSE /\ config' = {DefaultConfig(now)}
          /\ storage' = SaveConfig(storage, {DefaultConfig(now)})
  /\ lastSetCode' = ""
  /\ ret' = Return("initialize", "", FALSE)
  /\ UNCHANGED <<appVars, now, isAuthenticated, allKeys, pcPanic, settings,
                 notificationHistory, scheduled, alibis, storageAtCall, preWipe>>

\* a setPanicCode that stored the code as typed
StoredPanicCodePlain(code) == Plain(code)

\* what setPanicCode puts in config.panicCode
StoredPanicCode(code) == Digest(code)

SetPanicCode(code) ==
  /\ IF config # {}
     THEN /\ config' = {[Cfg EXCEPT !.panicCode = StoredPanicCode(code)]}
          /\ storage' = SaveConfig(storage, config')
     ELSE UNCHANGED <<config, storage>>
  /\ lastSetCode' = code
  /\ ret' = Return("setPanicCode", code, FALSE)
  /\ UNCHANGED <<appVars, now, isAuthenticated, allKeys, pcPanic, settings,
                 notificationHistory, scheduled, alibis, storageAtCall, preWipe>>

CheckPanicCode(inputCode) ==
  /\ ret' = Return("checkPanicCode", inputCode,
                    IF config = {} THEN FALSE ELSE Digest(inputCode) = Cfg.panicCode)
  /\ UNCHANGED <<appVars, storage, now, config, isAuthenticated, allKeys, pcPanic, settings,
                 notificationHistory, scheduled, alibis, storageAtCall, lastSetCode, preWipe>>

\* timeDiff > autoLockTime with timeDiff = (now - lastAccessTime) / 1000 / 60:
\* the quotient is not rounded, so the test is on the milliseconds
LockDueInclusive(t, cfg) == t - cfg.lastAccessTime >= cfg.autoLockTime * MsPerMinute

LockDue(t, cfg) == t - cfg.lastAccessTime > cfg.autoLockTime * MsPerMinute

CheckAutoLock ==
  /\ IF config = {}
     THEN /\ ret' = Return("checkAutoLock", "", FALSE)
          /\ UNCHANGED isAuthenticated
     ELSE IF LockDue(now, Cfg)
          THEN /\ isAuthenticated' = FALSE
               /\ ret' = Return("checkAutoLock", "", TRUE)
          ELSE /\ ret' = Return("checkAutoLock", "", FALSE)
               /\ UNCHANGED isAuthenticated
  /\ UNCHANGED <<appVars, storage, now, config, allKeys, pcPanic, settings,
                 notificationHistory, scheduled, alibis, storageAtCall, lastSetCode, preWipe>>

TouchedConfig(cfg, t) == {[c EXCEPT !.lastAccessTime = t] : c \in cfg}

UpdateLastAccess ==
  /\ config' = TouchedConfig(config, now)
  /\ storage' = SaveConfig(storage, config')
  /\ ret' = Return("updateLastAccess", "", FALSE)
  /\ UNCHANGED <<appVars, now, isAuthenticated, allKeys, pcPanic, settings,
                 notificationHistory, scheduled, alibis, storageAtCall, lastSetCode, preWipe>>

SetAuthenticated(value) ==
  /\ isAuthenticated' = value
  /\ IF value
     THEN /\ config' = TouchedConfig(config, now)
          /\ storage' = SaveConfig(storage, config')
     ELSE UNCHANGED <<config, storage>>
  /\ ret' = Return("setAuthenticated", IF value THEN "true" ELSE "false", FALSE)
  /\ UNCHANGED <<appVars, now, allKeys, pcPanic, settings,
                 notificationHistory, scheduled, alibis, storageAtCall, lastSetCode, preWipe>>

keysToKeep == {"recipes", "normalSettings"}

\* a filter that keeps 'recipes' alone
KeysToRemoveButRecipes(keys) == {key \in keys : key # "recipes"}

KeysToRemove(keys) == {key \in keys : key \notin keysToKeep}

\* panicMode up to its first await: AsyncStorage.getAllKeys()
PanicGetAllKeys ==
  /\ pcPanic = "idle"
  /\ allKeys' = DOMAIN storage
  /\ pcPanic' = "remove"
  /\ storageAtCall' = storage
  /\ UNCHANGED <<appVars, storage, now, config, isAuthenticated, ret, settings,
                 notificationHistory, scheduled, alibis, lastSetCode, preWipe>>

Range(s) == {s[i] : i \in DOMAIN s}

StoredList(st, k) == IF k \in DOMAIN st THEN Range(st[k]) ELSE {}

\* panicMode from AsyncStorage.multiRemove(keysToRemove) to its end
PanicMultiRemove ==
  /\ pcPanic = "remove"
  /\ storage' = MultiRemove(storage, KeysToRemove(allKeys))
  /\ isAuthenticated' = FALSE
  /\ pcPanic' = "idle"
  /\ allKeys' = {}
  /\ storageAtCall' = <<>>
  /\ preWipe' = [done |-> TRUE,
                 quiet |-> storage = storageAtCall,
                 history |-> StoredList(storage, "notificationHistory"),
                 alibis |-> StoredList(storage, "alibis"),
                 config |-> IF Has("securityConfig") THEN {storage["securityConfig"]} ELSE {}]
  /\ UNCHANGED <<appVars, now, config, ret, settings, notificationHistory, scheduled, alibis,
                 lastSetCode>>

(***************************************************************************)
(* NotificationService                                                     *)
(***************************************************************************)
Priorities == {"low", "medium", "high", "critical"}

RealTitles == {"Alertas enviados"}

RealBodies == {"contatos notificados"}

PhraseIdx == 1..MaxPhrase

culinaryPhrases ==
  [alerts |-> <<"Nova receita especial disponível!", "Dica quente de culinária",
                "Ingrediente em promoção", "Chef online agora", "Receita do dia">>,
   reminders |-> <<"Hora de preparar o jantar", "Não esqueça dos ingredientes",
                   "Mercado fecha em 1 hora", "Receita agendada", "Tempo de preparo">>,
   urgent |-> <<"Oferta limitada no mercado!", "Últimas unidades do ingrediente",
                "Promoção relâmpago", "Chef VIP disponível", "Receita exclusiva liberada">>]

\* generateCulinaryBody's local table
bodies ==
  [low |-> <<"Confira as novidades no app", "Temos sugestões para você",
             "Novas receitas adicionadas">>,
   medium |-> <<"Não perca essa oportunidade", "Disponível por tempo limitado",
                "Recomendado para você">>,
   high |-> <<"Ação necessária agora", "Importante verificar", "Requer sua atenção">>,
   critical |-> <<"Urgente! Veja agora", "Atenção imediata necessária", "Não pode esperar">>]

\* generateCulinaryTitle: the list the priority selects, and the index Math.random() picks
CulinaryTitle(priority, i) ==
  IF priority = "critical" THEN culinaryPhrases.urgent[i]
  ELSE IF priority = "high" THEN culinaryPhrases.alerts[i]
  ELSE culinaryPhrases.reminders[i]

\* generateCulinaryBody: bodies[priority][index]
CulinaryBody(priority, j) == bodies[priority][j]

\* a title or body given by the caller, as given
Real(text) == text

\* content that is shown undisguised whatever the setting
ContentShownReal(hideContent, culinary, real) == real

\* this.settings.hideContent ? culinary : real
ContentShown(hideContent, culinary, real) == IF hideContent THEN culinary ELSE real

\* a switch that never stops a notification
NotificationsOffNever(s) == FALSE

\* if (!this.settings.enabled) return;
NotificationsOff(s) == ~s.enabled

\* JSON.stringify of the history: a Date becomes its ISO string
HistoryToJSON(h) == [i \in DOMAIN h |-> [h[i] EXCEPT !.timestamp = <<"iso", h[i].timestamp[2]>>]]

\* JSON.parse of a stored history: the ISO strings stay strings
HistoryFromJSON(j) == j

Unshift(h, n) == <<n>> \o h

\* the history after saveNotificationToHistory's unshift and slice(0, 50)
HistoryAfterSave(h, n) ==
  IF Len(Unshift(h, n)) > HistoryLimit
  THEN SubSeq(Unshift(h, n), 1, HistoryLimit)
  ELSE Unshift(h, n)

SendSecureNotification(realTitle, realBody, priority, i, j) ==
  /\ Len(scheduled) < MaxSends
  /\ IF NotificationsOff(settings)
     THEN UNCHANGED <<scheduled, notificationHistory, storage>>
     ELSE /\ scheduled' = Append(scheduled,
                [title |-> ContentShown(settings.hideContent, CulinaryTitle(priority, i),
                                        Real(realTitle)),
                 body |-> ContentShown(settings.hideContent, CulinaryBody(priority, j),
                                       Real(realBody)),
                 data |-> [realTitle |-> Real(realTitle), realBody |-> Real(realBody),
                           priority |-> priority, timestamp |-> <<"iso", now>>]])
          /\ notificationHistory' = HistoryAfterSave(notificationHistory,
                [id |-> now,
                 realTitle |-> Real(realTitle),
                 culinaryTitle |-> CulinaryTitle(priority, i),
                 realBody |-> Real(realBody),
                 culinaryBody |-> CulinaryBody(priority, j),
                 priority |-> priority,
                 timestamp |-> <<"Date", now>>])
          /\ storage' = SetItem(storage, "notificationHistory",
                                HistoryToJSON(notificationHistory'))
  /\ ret' = Return("sendSecureNotification", priority, FALSE)
  /\ UNCHANGED <<appVars, now, config, isAuthenticated, allKeys, pcPanic, settings, alibis,
                 storageAtCall, lastSetCode, preWipe>>

\* the number of contacts given to sendEmergencyAlert
ContactCounts == {2}

\* sendEmergencyAlert(contacts): the message it builds is not used
SendEmergencyAlert(contacts, i, j) ==
  SendSecureNotification("Alertas enviados",
                         Digits[contacts + 1] \o " contatos notificados", "critical", i, j)

testMessages ==
  [low |-> [title |-> "Teste: Notificação Baixa Prioridade",
            body |-> "Esta é uma notificação de teste com baixa prioridade"],
   medium |-> [title |-> "Teste: Notificação Média Prioridade",
               body |-> "Esta é uma notificação de teste com média prioridade"],
   high |-> [title |-> "Teste: Notificação Alta Prioridade",
             body |-> "Esta é uma notificação de teste com alta prioridade"],
   critical |-> [title |-> "Teste: Notificação Crítica",
                 body |-> "Esta é uma notificação de teste crítica - Em produção, seria um alerta de emergência"]]

TestNotification(type, i, j) ==
  SendSecureNotification(testMessages[type].title, testMessages[type].body, type, i, j)

\* updateSettings({ [field]: value }): merge, then saveSettings()
UpdateSettings(field, value) ==
  /\ settings' = [settings EXCEPT ![field] = value]
  /\ storage' = SetItem(storage, "notificationSettings", settings')
  /\ ret' = Return("updateSettings", field, FALSE)
  /\ UNCHANGED <<appVars, now, config, isAuthenticated, allKeys, pcPanic,
                 notificationHistory, scheduled, alibis, storageAtCall, lastSetCode, preWipe>>

\* getNotificationHistory(): a stored history replaces the one in memory
GetNotificationHistory ==
  /\ notificationHistory' = IF Has("notificationHistory")
                            THEN HistoryFromJSON(storage["notificationHistory"])
                            ELSE notificationHistory
  /\ ret' = Return("getNotificationHistory", "", FALSE)
  /\ UNCHANGED <<appVars, storage, now, config, isAuthenticated, allKeys, pcPanic, settings,
                 scheduled, alibis, storageAtCall, lastSetCode, preWipe>>

ClearNotificationHistory ==
  /\ notificationHistory' = <<>>
  /\ storage' = MultiRemove(storage, {"notificationHistory"})
  /\ ret' = Return("clearNotificationHistory", "", FALSE)
  /\ UNCHANGED <<appVars, now, config, isAuthenticated, allKeys, pcPanic, settings,
                 scheduled, alibis, storageAtCall, lastSetCode, preWipe>>

(***************************************************************************)
(* AlibiService                                                            *)
(***************************************************************************)
alibiTemplates == {"1", "2", "3", "4", "5"}

TemplateIds == {"1", "9"}

AlibisToJSON(a) == [i \in DOMAIN a |-> [a[i] EXCEPT !.startTime = <<"iso", a[i].startTime[2]>>]]

\* createAlibi with calendarId null (no calendar permission); startsIn is
\* startTime - now in minutes; the reminder it asks the system for is not a
\* notification of NotificationService and is not kept in scheduled
CreateAlibi(templateId, startsIn) ==
  /\ Len(alibis) < MaxAlibis
  /\ IF templateId \notin alibiTemplates
     THEN UNCHANGED <<alibis, storage, scheduled>>
     ELSE /\ alibis' = Append(alibis, [id |-> now, template |-> templateId,
                                       startTime |-> <<"Date", now + startsIn * MsPerMinute>>])
          /\ storage' = SetItem(storage, "alibis", AlibisToJSON(alibis'))
          /\ UNCHANGED scheduled
  /\ UNCHANGED <<appVars, now, config, isAuthenticated, allKeys, pcPanic, ret, settings,
                 notificationHistory, storageAtCall, lastSetCode, preWipe>>

(***************************************************************************)
(* The clock                                                               *)
(***************************************************************************)
\* the clock advances by half the default auto-lock time or one ms more, so that
\* an inactivity of exactly autoLockTime minutes and of one ms more both occur
ClockSteps == {(DefaultAutoLockTime * MsPerMinute) \div 2,
               (DefaultAutoLockTime * MsPerMinute) \div 2 + 1}

TickClock(d, limit) ==
  /\ now + d <= limit
  /\ now' = now + d
  /\ UNCHANGED <<appVars, storage, config, isAuthenticated, allKeys, pcPanic, ret, settings,
                 notificationHistory, scheduled, alibis, storageAtCall, lastSetCode, preWipe>>

(***************************************************************************)
(* The screens: the app opens on the recipes tab with nothing pushed       *)
(***************************************************************************)
NoAlert == [kind |-> "none", score |-> 0, riskLevel |-> ""]

InitScreens ==
  /\ tab = "receitas"
  /\ modalVisible = FALSE
  /\ selectedChapter = ""
  /\ stack = <<>>
  /\ alert = NoAlert
  /\ isHolding = FALSE
  /\ holdTimer = {}
  /\ startTime = 0
  /\ timers = <<>>
  /\ calls = <<>>

(***************************************************************************)
(* The service specification                                               *)
(***************************************************************************)
\* a securityConfig an earlier run of the app saved, after the user chose a panic code
SavedConfigs == {[DefaultConfig(0) EXCEPT !.panicCode = Digest("1234")]}

InitValue(k, saved) ==
  CASE k = "recipes" -> "r1"
    [] k = "normalSettings" -> "n1"
    [] k = "secretAccess" -> "true"
    [] k = "securityConfig" -> ConfigToJSON(saved)

\* any contents of the store: every subset of these keys
InitStorages ==
  {[k \in ks |-> InitValue(k, saved)] :
     ks \in SUBSET {"recipes", "normalSettings", "secretAccess", "securityConfig"},
     saved \in SavedConfigs}

\* the services as their constructors leave them
InitServices ==
  /\ now = 0
  /\ config = {}
  /\ isAuthenticated = FALSE
  /\ allKeys = {}
  /\ pcPanic = "idle"
  /\ ret = [op |-> "none", arg |-> "", val |-> FALSE, at |-> 0]
  /\ settings \in {[enabled |-> TRUE, hideContent |-> h] : h \in BOOLEAN}
  /\ notificationHistory = <<>>
  /\ scheduled = <<>>
  /\ alibis = <<>>
  /\ storageAtCall = <<>>
  /\ lastSetCode = ""
  /\ preWipe = [done |-> FALSE, quiet |-> FALSE, history |-> {}, alibis |-> {}, config |-> {}]

InitService ==
  /\ storage \in InitStorages
  /\ InitServices
  /\ InitScreens

\* the security service on its own: panic code and auto-lock
NextLock ==
  \/ Initialize
  \/ \E code \in Codes : SetPanicCode(code)
  \/ \E inputCode \in Codes : CheckPanicCode(inputCode)
  \/ CheckAutoLock
  \/ UpdateLastAccess
  \/ \E value \in BOOLEAN : SetAuthenticated(value)
  \/ \E d \in ClockSteps : TickClock(d, MaxClock)

InitLock ==
  /\ InitService
  /\ DOMAIN storage \subseteq {"securityConfig"}
  /\ settings.hideContent

SpecLock == InitLock /\ [][NextLock]_vars

\* the panic wipe among the services that write to the store
NextWipe ==
  \/ Initialize
  \/ UpdateLastAccess
  \/ PanicGetAllKeys
  \/ PanicMultiRemove
  \/ \E t \in RealTitles, b \in RealBodies : SendSecureNotification(t, b, "critical", 1, 1)
  \/ \E tid \in TemplateIds : CreateAlibi(tid, 0)

InitWipe ==
  /\ InitService
  /\ settings.hideContent

SpecWipe == InitWipe /\ [][NextWipe]_vars

(***************************************************************************)
(* The stack of pushed screens                                             *)
(***************************************************************************)
Top == stack[Len(stack)]

Showing(route) == stack # <<>> /\ Top.route = route /\ alert = NoAlert

Push(screen) == Append(stack, screen)

Pop == SubSeq(stack, 1, Len(stack) - 1)

WithTop(screen) == [stack EXCEPT ![Len(stack)] = screen]

(***************************************************************************)
(* AssessmentScreen (avaliacao.tsx)                                        *)
(***************************************************************************)
Option(value, score) == [value |-> value, score |-> score]

questions ==
  << [id |-> "1", options |-> <<Option("sim", 0), Option("alguns", 5),
                                Option("poucos", 10), Option("nenhum", 15)>>],
     [id |-> "2", options |-> <<Option("sempre", 0), Option("geralmente", 5),
                                Option("as_vezes", 10), Option("nunca", 15)>>],
     [id |-> "3", options |-> <<Option("cheia", 0), Option("razoavel", 5),
                                Option("pouca", 10), Option("vazia", 15)>>],
     [id |-> "4", options |-> <<Option("sempre", 0), Option("maioria", 5),
                                Option("raramente", 10), Option("nunca", 15)>>],
     [id |-> "5", options |-> <<Option("sempre", 0), Option("maioria", 5),
                                Option("poucas", 10), Option("nunca", 15)>>] >>

\* Config.RISK_LEVELS
RISK_LEVELS ==
  {[min |-> 0, max |-> 20, label |-> "baixo"],
   [min |-> 21, max |-> 40, label |-> "moderado"],
   [min |-> 41, max |-> 75, label |-> "alto"]}

\* a new instance of the screen: useState(0), useState({}), useState(0)
AssessmentScreen ==
  [route |-> "avaliacao", currentQuestion |-> 0, answers |-> <<>>, totalScore |-> 0]

\* a tier that puts a score of exactly 20 or 40 one level up
RiskLevelOfExclusive(score) ==
  IF score < 20 THEN "baixo" ELSE IF score < 40 THEN "moderado" ELSE "alto"

\* calculateRisk's if / else if / else
RiskLevelOf(score) ==
  IF score <= 20 THEN "baixo" ELSE IF score <= 40 THEN "moderado" ELSE "alto"

RECURSIVE NumberToString(_)
\* Number.prototype.toString() of a non-negative integer: its decimal digits
NumberToString(n) ==
  IF n < 10 THEN <<Digits[n + 1]>> ELSE NumberToString(n \div 10) \o <<Digits[(n % 10) + 1]>>

\* a last answer that is left out of the score
FinalScoreWithoutLast(totalScore, score) == totalScore

\* handleAnswer's finalScore
FinalScore(totalScore, score) == totalScore + score

\* handleAnswer(question.id, option.value, option.score) for option o of the
\* question shown, with calculateRisk(finalScore) on the last question
HandleAnswer(o) ==
  /\ Showing("avaliacao")
  /\ LET question == questions[Top.currentQuestion + 1]
         option == question.options[o]
         answered == [Top EXCEPT !.answers = SetItem(Top.answers, question.id, option.value)]
     IN IF Top.currentQuestion < Len(questions) - 1
        THEN /\ stack' = WithTop([answered EXCEPT !.currentQuestion = Top.currentQuestion + 1,
                                                  !.totalScore = Top.totalScore + option.score])
             /\ UNCHANGED <<storage, alert>>
        ELSE LET finalScore == FinalScore(Top.totalScore, option.score)
             IN /\ stack' = WithTop(answered)
                /\ storage' = SetItem(SetItem(storage, "riskLevel", RiskLevelOf(finalScore)),
                                      "assessmentScore", NumberToString(finalScore))
                /\ alert' = [kind |-> "checklist", score |-> finalScore,
                             riskLevel |-> RiskLevelOf(finalScore)]
  /\ UNCHANGED <<now, config, isAuthenticated, allKeys, pcPanic, ret, settings,
                 notificationHistory, scheduled, alibis, storageAtCall, lastSetCode, preWipe,
                 tab, modalVisible, selectedChapter,
                 isHolding, holdTimer, startTime, timers, calls>>

\* the alert's 'Ver Dicas' button: router.push('/resultado', {score, riskLevel, tips})
ViewTips ==
  /\ alert.kind = "checklist"
  /\ stack' = Push([route |-> "resultado", score |-> alert.score, riskLevel |-> alert.riskLevel])
  /\ alert' = NoAlert
  /\ UNCHANGED <<svcVars, tab, modalVisible, selectedChapter,
                 isHolding, holdTimer, startTime, timers, calls>>

\* router.back(), on the screens that have the button, and the system's back gesture
GoBack ==
  /\ stack # <<>>
  /\ alert = NoAlert
  /\ stack' = Pop
  /\ UNCHANGED <<svcVars, tab, modalVisible, selectedChapter, alert,
                 isHolding, holdTimer, startTime, timers, calls>>

\* the assessment screen, as the secret gesture leaves it
InitAssess ==
  /\ InitServices
  /\ storage = [secretAccess |-> "true"]
  /\ settings.hideContent
  /\ tab = "receitas"
  /\ modalVisible = FALSE
  /\ selectedChapter = ""
  /\ stack = <<AssessmentScreen>>
  /\ alert = NoAlert
  /\ isHolding = FALSE
  /\ holdTimer = {}
  /\ startTime = 0
  /\ timers = <<>>
  /\ calls = <<>>

NextAssess ==
  \/ \E o \in 1..4 : HandleAnswer(o)
  \/ ViewTips
  \/ GoBack

SpecAssess == InitAssess /\ [][NextAssess]_vars

(***************************************************************************)
(* RecipesScreen (receitas.tsx): the secret gesture                        *)
(***************************************************************************)
categories == {"rapidas", "sobremesas", "saudaveis", "especiais"}

RecipesVisible == stack = <<>> /\ tab = "receitas" /\ alert = NoAlert

Pending(id) == id \in DOMAIN timers /\ timers[id].status = "pending"

\* clearTimeout(id): a timer that fired or was cleared is left as it is
ClearTimeout(ts, id) ==
  [x \in DOMAIN ts |-> IF x = id /\ ts[x].status = "pending"
                       THEN [ts[x] EXCEPT !.status = "cleared"] ELSE ts[x]]

ClearHoldTimer(ts, ref) == IF ref = {} THEN ts ELSE ClearTimeout(ts, CHOOSE id \in ref : TRUE)

HandlePressIn(categoryId) ==
  /\ RecipesVisible
  /\ IF categoryId = "especiais"
     THEN /\ Len(timers) < MaxTimers
          /\ startTime' = now
          /\ isHolding' = TRUE
          /\ timers' = Append(timers, [start |-> now, status |-> "pending"])
          /\ holdTimer' = {Len(timers) + 1}
     ELSE UNCHANGED <<startTime, isHolding, timers, holdTimer>>
  /\ UNCHANGED <<svcVars, tab, modalVisible, selectedChapter, stack, alert, calls>>

HandlePressOut ==
  /\ timers' = ClearHoldTimer(timers, holdTimer)
  /\ holdTimer' = {}
  /\ isHolding' = FALSE
  /\ UNCHANGED <<svcVars, tab, modalVisible, selectedChapter, stack, alert, startTime, calls>>

\* the timer's callback runs, 5000 ms or more after setTimeout: handleSecretAccess()
\* up to its await of AsyncStorage.setItem
TimerFire(id) ==
  /\ Pending(id)
  /\ now - timers[id].start >= HoldMs
  /\ timers' = [timers EXCEPT ![id].status = "fired"]
  /\ calls' = SetItem(calls, id, "writing")
  /\ UNCHANGED <<svcVars, tab, modalVisible, selectedChapter, stack, alert,
                 isHolding, holdTimer, startTime>>

\* AsyncStorage.setItem('secretAccess', 'true') succeeds
SecretWriteDone(id) ==
  /\ id \in DOMAIN calls /\ calls[id] = "writing"
  /\ storage' = SetItem(storage, "secretAccess", "true")
  /\ calls' = [calls EXCEPT ![id] = "resuming"]
  /\ UNCHANGED <<now, config, isAuthenticated, allKeys, pcPanic, ret, settings,
                 notificationHistory, scheduled, alibis, storageAtCall, lastSetCode, preWipe,
                 tab, modalVisible, selectedChapter, stack, alert,
                 isHolding, holdTimer, startTime, timers>>

\* a call whose failed write is followed by the navigation all the same
CallAfterFailedWriteGoesOn == "resuming"

\* the catch block of handleSecretAccess: console.error, and the call is over
CallAfterFailedWrite == "failed"

\* AsyncStorage.setItem('secretAccess', 'true') rejects
SecretWriteFail(id) ==
  /\ id \in DOMAIN calls /\ calls[id] = "writing"
  /\ calls' = [calls EXCEPT ![id] = CallAfterFailedWrite]
  /\ UNCHANGED <<svcVars, tab, modalVisible, selectedChapter, stack, alert,
                 isHolding, holdTimer, startTime, timers>>

\* handleSecretAccess after its await: reset the state, router.push('/avaliacao')
SecretResume(id) ==
  /\ id \in DOMAIN calls /\ calls[id] = "resuming"
  /\ isHolding' = FALSE
  /\ timers' = ClearHoldTimer(timers, holdTimer)
  /\ holdTimer' = {}
  /\ stack' = Push(AssessmentScreen)
  /\ calls' = [calls EXCEPT ![id] = "done"]
  /\ UNCHANGED <<svcVars, tab, modalVisible, selectedChapter, alert, startTime>>

HoldSteps == {HoldMs \div 2}

TimerIds == 1..MaxTimers

InitGesture ==
  /\ InitServices
  /\ storage = <<>>
  /\ settings.hideContent
  /\ InitScreens

NextGesture ==
  \/ \E categoryId \in categories : HandlePressIn(categoryId)
  \/ HandlePressOut
  \/ \E id \in TimerIds : TimerFire(id)
  \/ \E id \in TimerIds : SecretWriteDone(id)
  \/ \E id \in TimerIds : SecretWriteFail(id)
  \/ \E id \in TimerIds : SecretResume(id)
  \/ \E d \in HoldSteps : TickClock(d, MaxHoldClock)

SpecGesture == InitGesture /\ [][NextGesture]_vars

\* the event loop runs a due timer's callback and the continuation of a settled
\* promise; the store settles every write, one way or the other
FairGesture ==
  /\ SpecGesture
  /\ \A id \in TimerIds : WF_vars(TimerFire(id))
  /\ \A id \in TimerIds : WF_vars(SecretWriteDone(id) \/ SecretWriteFail(id))
  /\ \A id \in TimerIds : WF_vars(SecretResume(id))

(***************************************************************************)
(* The tabs, BookScreen (livro.tsx), QuizScreen (quiz.tsx) and             *)
(* DashboardScreen (dashboard.tsx)                                         *)
(***************************************************************************)
Tabs == {"receitas", "mapas", "grupo", "livro"}

\* a press on a button of the tab bar
SelectTab(name) ==
  /\ stack = <<>> /\ alert = NoAlert /\ ~modalVisible
  /\ tab' = name
  /\ UNCHANGED <<svcVars, modalVisible, selectedChapter, stack, alert,
                 isHolding, holdTimer, startTime, timers, calls>>

BookVisible == stack = <<>> /\ tab = "livro" /\ alert = NoAlert

ChapterIds == {"1", "5"}

HandleChapterPress(chapter) ==
  /\ BookVisible /\ ~modalVisible
  /\ selectedChapter' = chapter
  /\ modalVisible' = TRUE
  /\ UNCHANGED <<svcVars, tab, stack, alert, isHolding, holdTimer, startTime, timers, calls>>

\* the modal's close button and onRequestClose
CloseModal ==
  /\ BookVisible /\ modalVisible
  /\ modalVisible' = FALSE
  /\ UNCHANGED <<svcVars, tab, selectedChapter, stack, alert,
                 isHolding, holdTimer, startTime, timers, calls>>

\* useState of a new QuizScreen; selectedAnswer is -1 for null
QuizScreen ==
  [route |-> "quiz", currentQuestion |-> 0, selectedAnswer |-> -1,
   showExplanation |-> FALSE, score |-> 0,
   answeredQuestions |-> [i \in 1..5 |-> FALSE]]

\* the modal's 'Testar Conhecimento' button: router.push('/quiz')
TestKnowledge ==
  /\ BookVisible /\ modalVisible /\ selectedChapter # ""
  /\ Len(stack) < MaxStack
  /\ modalVisible' = FALSE
  /\ stack' = Push(QuizScreen)
  /\ UNCHANGED <<svcVars, tab, selectedChapter, alert,
                 isHolding, holdTimer, startTime, timers, calls>>

\* handleEmergencyRecipe: router.push('/plano-seguranca')
HandleEmergencyRecipe ==
  /\ BookVisible /\ ~modalVisible
  /\ Len(stack) < MaxStack
  /\ stack' = Push([route |-> "plano-seguranca"])
  /\ UNCHANGED <<svcVars, tab, modalVisible, selectedChapter, alert,
                 isHolding, holdTimer, startTime, timers, calls>>

\* quiz.tsx questions[i].correctAnswer
correctAnswer == <<1, 2, 2, 1, 1>>

AnswerIndices == {1, 2}

\* QuizScreen.handleAnswer; the options are disabled while the explanation shows
HandleQuizAnswer(answerIndex) ==
  /\ Showing("quiz") /\ ~Top.showExplanation
  /\ LET q == Top.currentQuestion + 1
         isCorrect == answerIndex = correctAnswer[q]
     IN stack' = WithTop([Top EXCEPT
           !.selectedAnswer = answerIndex,
           !.showExplanation = TRUE,
           !.score = IF isCorrect /\ ~Top.answeredQuestions[q] THEN Top.score + 1 ELSE Top.score,
           !.answeredQuestions = [Top.answeredQuestions EXCEPT ![q] = TRUE]])
  /\ UNCHANGED <<svcVars, tab, modalVisible, selectedChapter, alert,
                 isHolding, holdTimer, startTime, timers, calls>>

\* Math.round((score / questions.length) * 100)
Percentage(score, n) == (2 * score * 100 + n) \div (2 * n)

Achievements(st) == IF "achievements" \in DOMAIN st THEN st["achievements"] ELSE <<>>

\* nextQuestion, with finishQuiz on the last question
NextQuestion ==
  /\ Showing("quiz") /\ Top.showExplanation
  /\ IF Top.currentQuestion < Len(correctAnswer) - 1
     THEN /\ stack' = WithTop([Top EXCEPT !.currentQuestion = Top.currentQuestion + 1,
                                          !.selectedAnswer = -1,
                                          !.showExplanation = FALSE])
          /\ UNCHANGED <<storage, alert>>
     ELSE /\ IF Percentage(Top.score, Len(correctAnswer)) >= AchievementPercentage
             THEN /\ Len(Achievements(storage)) < MaxAchievements
                  /\ storage' = SetItem(storage, "achievements",
                        Append(Achievements(storage),
                               [id |-> <<"quiz", now>>,
                                percentage |-> Percentage(Top.score, Len(correctAnswer)),
                                unlockedAt |-> <<"iso", now>>]))
             ELSE UNCHANGED storage
          /\ alert' = [kind |-> "quiz", score |-> Top.score, riskLevel |-> ""]
          /\ UNCHANGED stack
  /\ UNCHANGED <<now, config, isAuthenticated, allKeys, pcPanic, ret, settings,
                 notificationHistory, scheduled, alibis, storageAtCall, lastSetCode, preWipe,
                 tab, modalVisible, selectedChapter,
                 isHolding, holdTimer, startTime, timers, calls>>

\* the quiz alert's 'Ver Progresso' button: router.replace('/dashboard')
QuizViewProgress ==
  /\ alert.kind = "quiz"
  /\ stack' = WithTop([route |-> "dashboard"])
  /\ alert' = NoAlert
  /\ UNCHANGED <<svcVars, tab, modalVisible, selectedChapter,
                 isHolding, holdTimer, startTime, timers, calls>>

\* the quiz alert's 'Refazer' button
QuizRedo ==
  /\ alert.kind = "quiz"
  /\ stack' = WithTop(QuizScreen)
  /\ alert' = NoAlert
  /\ UNCHANGED <<svcVars, tab, modalVisible, selectedChapter,
                 isHolding, holdTimer, startTime, timers, calls>>

\* the dashboard's 'Nova Avaliação' button: router.push('/avaliacao')
DashboardNewAssessment ==
  /\ Showing("dashboard")
  /\ Len(stack) < MaxStack
  /\ stack' = Push(AssessmentScreen)
  /\ UNCHANGED <<svcVars, tab, modalVisible, selectedChapter, alert,
                 isHolding, holdTimer, startTime, timers, calls>>

\* the dashboard's 'Revisar Plano' button: router.push('/plano-seguranca')
DashboardReviewPlan ==
  /\ Showing("dashboard")
  /\ Len(stack) < MaxStack
  /\ stack' = Push([route |-> "plano-seguranca"])
  /\ UNCHANGED <<svcVars, tab, modalVisible, selectedChapter, alert,
                 isHolding, holdTimer, startTime, timers, calls>>

\* the app from its start on the recipes tab: the gesture and the navigation
NextApp ==
  \/ \E categoryId \in categories : HandlePressIn(categoryId)
  \/ HandlePressOut
  \/ \E id \in TimerIds : TimerFire(id)
  \/ \E id \in TimerIds : SecretWriteDone(id)
  \/ \E id \in TimerIds : SecretWriteFail(id)
  \/ \E id \in TimerIds : SecretResume(id)
  \/ \E d \in HoldSteps : TickClock(d, MaxHoldClock)
  \/ \E name \in Tabs : SelectTab(name)
  \/ \E chapter \in ChapterIds : HandleChapterPress(chapter)
  \/ CloseModal
  \/ TestKnowledge
  \/ HandleEmergencyRecipe
  \/ \E answerIndex \in AnswerIndices : HandleQuizAnswer(answerIndex)
  \/ NextQuestion
  \/ QuizViewProgress
  \/ QuizRedo
  \/ DashboardNewAssessment
  \/ DashboardReviewPlan
  \/ GoBack

SpecApp == InitGesture /\ [][NextApp]_vars

(***************************************************************************)
(* The settings screen (src/app/configuracoes.tsx) beside SecurityService  *)
(***************************************************************************)
\* the options of the 'Tempo de Auto-bloqueio' alert, in minutes
AutoLockChoices == {1, 5, 15, 30}

\* useState<Settings>: of the eight settings the auto-lock time and the
\* notification switch are kept; the others are not read by any service either
DefaultSettings == [autoLockTime |-> 5, hideNotifications |-> TRUE]

\* JSON.stringify / JSON.parse of a Settings: numbers and booleans survive unchanged
SettingsToJSON(s) == s

SettingsFromJSON(j) == j

\* a new instance of the screen; loaded tells that the mount effect's loadSettings ran
SettingsScreen == [route |-> "configuracoes", settings |-> DefaultSettings, loaded |-> FALSE]

\* loadSettings(), from the mount effect
LoadSettings ==
  /\ Showing("configuracoes")
  /\ ~Top.loaded
  /\ stack' = WithTop([Top EXCEPT !.loaded = TRUE,
                                  !.settings = IF Has("appSettings")
                                               THEN SettingsFromJSON(storage["appSettings"])
                                               ELSE @])
  /\ UNCHANGED <<svcVars, tab, modalVisible, selectedChapter, alert,
                 isHolding, holdTimer, startTime, timers, calls>>

\* the onPress of the 'Auto-bloqueio' row: Alert.alert with the four options
OpenAutoLockAlert ==
  /\ Showing("configuracoes")
  /\ alert' = [NoAlert EXCEPT !.kind = "autoLock"]
  /\ UNCHANGED <<svcVars, tab, modalVisible, selectedChapter, stack,
                 isHolding, holdTimer, startTime, timers, calls>>

\* saveSettings(newSettings): setItem('appSettings') and setSettings
SaveSettings(newSettings) ==
  /\ storage' = SetItem(storage, "appSettings", SettingsToJSON(newSettings))
  /\ stack' = WithTop([Top EXCEPT !.settings = newSettings])

\* an option of the alert: saveSettings({ ...settings, autoLockTime: minutes })
SelectAutoLockTime(minutes) ==
  /\ alert.kind = "autoLock"
  /\ SaveSettings([Top.settings EXCEPT !.autoLockTime = minutes])
  /\ alert' = NoAlert
  /\ UNCHANGED <<now, config, isAuthenticated, allKeys, pcPanic, ret, settings,
                 notificationHistory, scheduled, alibis, storageAtCall, lastSetCode, preWipe,
                 tab, modalVisible, selectedChapter,
                 isHolding, holdTimer, startTime, timers, calls>>

\* the 'Ocultar Notificações' switch: saveSettings({ ...settings, hideNotifications: value })
ToggleHideNotifications(value) ==
  /\ Showing("configuracoes")
  /\ SaveSettings([Top.settings EXCEPT !.hideNotifications = value])
  /\ UNCHANGED <<now, config, isAuthenticated, allKeys, pcPanic, ret, settings,
                 notificationHistory, scheduled, alibis, storageAtCall, lastSetCode, preWipe,
                 tab, modalVisible, selectedChapter, alert,
                 isHolding, holdTimer, startTime, timers, calls>>

\* appSettings an earlier run of the app saved
SavedSettings == {[DefaultSettings EXCEPT !.autoLockTime = 15]}

\* the settings screen just mounted, over a store an earlier run may have written
InitSettings ==
  /\ InitServices
  /\ settings.hideContent
  /\ storage \in {[k \in ks |-> IF k = "securityConfig" THEN ConfigToJSON(c)
                                ELSE SettingsToJSON(s)] :
                    ks \in SUBSET {"securityConfig", "appSettings"},
                    c \in SavedConfigs, s \in SavedSettings}
  /\ tab = "receitas"
  /\ modalVisible = FALSE
  /\ selectedChapter = ""
  /\ stack = <<SettingsScreen>>
  /\ alert = NoAlert
  /\ isHolding = FALSE
  /\ holdTimer = {}
  /\ startTime = 0
  /\ timers = <<>>
  /\ calls = <<>>

NextSettings ==
  \/ LoadSettings
  \/ Initialize
  \/ OpenAutoLockAlert
  \/ \E minutes \in AutoLockChoices : SelectAutoLockTime(minutes)
  \/ \E value \in BOOLEAN : ToggleHideNotifications(value)
  \/ CheckAutoLock
  \/ UpdateLastAccess
  \/ \E d \in ClockSteps : TickClock(d, MaxClock)

SpecSettings == InitSettings /\ [][NextSettings]_vars

(***************************************************************************)
(* NotificationService on its own: the switches and the senders            *)
(***************************************************************************)
SettingFields == {"enabled", "hideContent"}

InitNotify ==
  /\ InitServices
  /\ storage = <<>>
  /\ InitScreens

NextNotify ==
  \/ \E field \in SettingFields, value \in BOOLEAN : UpdateSettings(field, value)
  \/ \E contacts \in ContactCounts, i \in PhraseIdx, j \in PhraseIdx :
       SendEmergencyAlert(contacts, i, j)
  \/ \E type \in Priorities, i \in PhraseIdx, j \in PhraseIdx : TestNotification(type, i, j)

SpecNotify == InitNotify /\ [][NextNotify]_vars

(***************************************************************************)
(* The notification history, over a store an earlier run may have written *)
(***************************************************************************)
\* the history an earlier run stored after n emergency alerts, one per ms,
\* the last of them one ms before this run started
PreviousHistory(n) ==
  [k \in 1..n |-> [id |-> 0 - k,
                   realTitle |-> "Alertas enviados",
                   culinaryTitle |-> CulinaryTitle("critical", 1),
                   realBody |-> "2 contatos notificados",
                   culinaryBody |-> CulinaryBody("critical", 1),
                   priority |-> "critical",
                   timestamp |-> <<"iso", 0 - k>>]]

InitHistory ==
  /\ InitServices
  /\ settings.hideContent
  /\ storage \in {<<>>} \cup {[k \in {"notificationHistory"} |-> PreviousHistory(n)] :
                                n \in {HistoryLimit - 1, HistoryLimit}}
  /\ InitScreens

NextHistory ==
  \/ \E contacts \in ContactCounts : SendEmergencyAlert(contacts, 1, 1)
  \/ GetNotificationHistory
  \/ ClearNotificationHistory
  \/ \E d \in ClockSteps : TickClock(d, MaxClock)

SpecHistory == InitHistory /\ [][NextHistory]_vars

(***************************************************************************)
(* Claims on the panic wipe (SpecWipe)                                     *)
(***************************************************************************)
\* C1: when panicMode completes and no write reached the store since it read
\* the keys, every key other than 'recipes' and 'normalSettings' is absent and
\* these two are present with the value they had before the call, or absent as before.
C1_PanicWipe ==
  [][(pcPanic = "remove" /\ pcPanic' = "idle" /\ storage = storageAtCall) =>
       /\ DOMAIN storage' \subseteq {"recipes", "normalSettings"}
       /\ \A k \in {"recipes", "normalSettings"} :
            IF k \in DOMAIN storageAtCall
            THEN k \in DOMAIN storage' /\ storage'[k] = storageAtCall[k]
            ELSE k \notin DOMAIN storage']_vars

\* a wipe with no write in flight that removed sensitive keys and kept both others
C1_Witness ==
  /\ preWipe.done /\ preWipe.quiet /\ pcPanic = "idle"
  /\ preWipe.history # {} /\ preWipe.config # {}
  /\ DOMAIN storage = {"recipes", "normalSettings"}

\* C6: once panicMode has completed (no write in flight), the store holds no notification-history
\* entry and no alibi that existed before the wipe, and no security configuration
\* that existed before the wipe (one re-created from the defaults is no trace).
C6_NoTraceWrittenBack ==
  (preWipe.done /\ preWipe.quiet) =>
    /\ StoredList(storage, "notificationHistory") \cap preWipe.history = {}
    /\ StoredList(storage, "alibis") \cap preWipe.alibis = {}
    /\ (Has("securityConfig") /\ storage["securityConfig"] \in preWipe.config) =>
          storage["securityConfig"] = ConfigToJSON(DefaultConfig(now))

(***************************************************************************)
(* Claims on the panic code and the auto-lock (SpecLock)                   *)
(***************************************************************************)
\* C8: on an initialised service, a checkPanicCode(x) made after setPanicCode(c)
\* completed, with no setPanicCode or initialize since, returns true iff x = c.
C8_PanicCodeRoundTrip ==
  (ret.op = "checkPanicCode" /\ config # {} /\ lastSetCode # "") =>
     (ret.val <=> ret.arg = lastSetCode)

\* a check of the code that was set, and a check of another code
C8_Witness ==
  /\ ret.op = "checkPanicCode" /\ config # {} /\ lastSetCode # ""
  /\ ret.arg = lastSetCode /\ ret.val

\* C9: after initialize() found no saved 'securityConfig', the default code is
\* in force: checkPanicCode('911911') returns true.
C9_DefaultPanicCode ==
  (/\ ret.op = "checkPanicCode" /\ ret.arg = "911911"
   /\ config # {} /\ lastSetCode = ""
   /\ Cfg.panicCode = DefaultConfig(0).panicCode) => ret.val

\* C10: on an initialised service checkAutoLock() returns true and clears
\* isAuthenticated iff more than autoLockTime minutes passed since lastAccessTime,
\* else it returns false and leaves isAuthenticated alone; called right after
\* setAuthenticated(true) it returns false.
C10_AutoLock ==
  [][(ret' # ret /\ ret'.op = "checkAutoLock" /\ config # {}) =>
       /\ IF (now - Cfg.lastAccessTime) > Cfg.autoLockTime * 60000
          THEN ret'.val /\ ~isAuthenticated'
          ELSE ~ret'.val /\ isAuthenticated' = isAuthenticated
       /\ (ret.op = "setAuthenticated" /\ ret.arg = "true" /\ ret.at = now) => ~ret'.val]_vars

\* a lock one millisecond after the auto-lock time has passed
C10_Witness ==
  /\ ret.op = "checkAutoLock" /\ ret.val /\ ~isAuthenticated /\ config # {}
  /\ ret.at - Cfg.lastAccessTime = Cfg.autoLockTime * 60000 + 1

(***************************************************************************)
(* Claims on the risk assessment (SpecAssess)                              *)
(***************************************************************************)
\* C2: the stored total s is a multiple of 5 between 0 and 75, and the stored
\* riskLevel is 'baixo' iff s <= 20, 'moderado' iff 21 <= s <= 40, 'alto' iff
\* s >= 41, which is the label of the one range of Config.RISK_LEVELS holding s.
C2_RiskTier ==
  Has("assessmentScore") =>
    /\ Has("riskLevel")
    /\ \E s \in 0..75 :
         /\ s % 5 = 0
         /\ storage["assessmentScore"] = NumberToString(s)
         /\ storage["riskLevel"] = "baixo" <=> s <= 20
         /\ storage["riskLevel"] = "moderado" <=> (21 <= s /\ s <= 40)
         /\ storage["riskLevel"] = "alto" <=> s >= 41
         /\ {l.label : l \in {r \in RISK_LEVELS : r.min <= s /\ s <= r.max}}
              = {storage["riskLevel"]}

\* a total of exactly 40, stored as 'moderado'
C2_Witness ==
  /\ Has("assessmentScore") /\ storage["assessmentScore"] = <<"4", "0">>
  /\ storage["riskLevel"] = "moderado"

SelectedScore(qid, value) ==
  LET q == CHOOSE x \in Range(questions) : x.id = qid
  IN (CHOOSE opt \in Range(q.options) : opt.value = value).score

RECURSIVE SumSelected(_, _)
SumSelected(answers, qids) ==
  IF qids = {} THEN 0
  ELSE LET qid == CHOOSE x \in qids : TRUE
       IN SelectedScore(qid, answers[qid]) + SumSelected(answers, qids \ {qid})

\* C5: when calculateRisk has run, all five questions are answered and the score
\* it was given, which it stored as 'assessmentScore', is the sum of the scores
\* of the five selected options.
C5_ScoreSum ==
  alert.kind = "checklist" =>
    /\ DOMAIN Top.answers = {"1", "2", "3", "4", "5"}
    /\ alert.score = SumSelected(Top.answers, DOMAIN Top.answers)
    /\ storage["assessmentScore"] = NumberToString(alert.score)

\* five answers whose scores differ: 0 + 5 + 10 + 15 + 15
C5_Witness ==
  /\ alert.kind = "checklist" /\ alert.score = 45
  /\ Top.answers["1"] = "sim" /\ Top.answers["2"] = "geralmente"
  /\ Top.answers["3"] = "pouca" /\ Top.answers["4"] = "nunca" /\ Top.answers["5"] = "nunca"

(***************************************************************************)
(* Claims on the secret gesture (SpecGesture, FairGesture)                 *)
(***************************************************************************)
\* C3: a hold timer fires only 5000 ms or more after its press-in; once a hold
\* has lasted 5 s, either it is released or handleSecretAccess runs to its end:
\* 'secretAccess' is 'true' and /avaliacao is pushed, or the write failed; every
\* push of /avaliacao follows a successful write, and a failed write pushes nothing.
C3_SecretGesture ==
  /\ [][\A id \in TimerIds :
          (Pending(id) /\ timers'[id].status = "fired") => now - timers[id].start >= 5000]_vars
  /\ \A id \in TimerIds :
       (Pending(id) /\ now - timers[id].start >= 5000)
         ~> \/ id \in DOMAIN timers /\ timers[id].status = "cleared"
            \/ /\ id \in DOMAIN calls /\ calls[id] = "done"
               /\ Has("secretAccess") /\ storage["secretAccess"] = "true"
            \/ id \in DOMAIN calls /\ calls[id] = "failed"
  /\ [][Len(stack') > Len(stack) =>
          /\ stack'[Len(stack')].route = "avaliacao"
          /\ Has("secretAccess") /\ storage["secretAccess"] = "true"
          /\ \E id \in DOMAIN calls : calls[id] = "resuming" /\ calls'[id] = "done"]_vars
  /\ [][\A id \in DOMAIN calls' :
          /\ (calls'[id] = "failed" /\ id \in DOMAIN calls /\ calls[id] # "failed") =>
                (calls[id] = "writing" /\ stack' = stack /\ storage' = storage)
          /\ (id \in DOMAIN calls /\ calls[id] = "failed") => calls'[id] = "failed"]_vars

\* a completed gesture: the flag is set and the assessment is shown
C3_Witness ==
  /\ \E id \in DOMAIN calls : calls[id] = "done"
  /\ Has("secretAccess") /\ storage["secretAccess"] = "true"
  /\ stack # <<>> /\ Top.route = "avaliacao"

\* a write that failed: no flag, no navigation
C3_FailedWrite ==
  /\ \E id \in DOMAIN calls : calls[id] = "failed"
  /\ ~Has("secretAccess") /\ stack = <<>>

\* C4: after handlePressOut no hold timer is pending; a timer whose press was
\* released never fires, so it neither writes 'secretAccess' nor navigates;
\* a press on a category other than 'especiais' starts no timer.
C4_ReleaseCancels ==
  /\ [][HandlePressOut => \A id \in DOMAIN timers' : timers'[id].status # "pending"]_vars
  /\ [][\A id \in DOMAIN timers :
          (Pending(id) /\ timers'[id].status = "fired") => holdTimer = {id}]_vars
  /\ [][\A c \in categories \ {"especiais"} : HandlePressIn(c) => timers' = timers]_vars

(***************************************************************************)
(* Claims on the navigation (SpecApp)                                      *)
(***************************************************************************)
\* C7: whenever the /avaliacao screen is shown, the secret gesture has
\* completed and 'secretAccess' is 'true' in the store.
C7_OnlyThroughGesture ==
  (stack # <<>> /\ Top.route = "avaliacao") =>
     /\ \E id \in DOMAIN calls : calls[id] = "done"
     /\ Has("secretAccess") /\ storage["secretAccess"] = "true"

(***************************************************************************)
(* Claims on the settings screen (SpecSettings)                            *)
(***************************************************************************)
\* C11: once an auto-lock time is saved in appSettings, the initialised
\* SecurityService has that autoLockTime, and checkAutoLock() returns true
\* exactly when more than that many minutes passed since lastAccessTime.
C11_SelectedAutoLockTime ==
  [][(ret' # ret /\ ret'.op = "checkAutoLock" /\ config # {} /\ Has("appSettings")) =>
       /\ Cfg.autoLockTime = SettingsFromJSON(storage["appSettings"]).autoLockTime
       /\ ret'.val <=> (now - Cfg.lastAccessTime
                          > SettingsFromJSON(storage["appSettings"]).autoLockTime * 60000)]_vars

(***************************************************************************)
(* Claims on the notifications (SpecNotify, SpecHistory)                   *)
(***************************************************************************)
\* the list generateCulinaryTitle must draw from for a priority
TitleListOf(priority) ==
  CASE priority = "critical" -> culinaryPhrases.urgent
    [] priority = "high" -> culinaryPhrases.alerts
    [] priority \in {"low", "medium"} -> culinaryPhrases.reminders

\* C12: a notification that sendSecureNotification schedules while hideContent
\* is true has a title from the culinary list of its priority (urgent for
\* critical, alerts for high, reminders for low and medium) and a body from the
\* bodies of its priority, neither being the real title or body; while
\* hideContent is false its title and body are the real ones.
C12_DisguisedContent ==
  [][Len(scheduled') = Len(scheduled) + 1 =>
       LET n == scheduled'[Len(scheduled')]
       IN IF settings.hideContent
          THEN /\ n.title \in Range(TitleListOf(n.data.priority))
               /\ n.body \in Range(bodies[n.data.priority])
               /\ n.title # n.data.realTitle
               /\ n.body # n.data.realBody
          ELSE /\ n.title = n.data.realTitle
               /\ n.body = n.data.realBody]_vars

\* a disguised critical alert and an undisguised test notification were both scheduled
C12_Witness ==
  /\ \E k \in DOMAIN scheduled :
       /\ scheduled[k].data.priority = "critical"
       /\ scheduled[k].title \in Range(culinaryPhrases.urgent)
       /\ scheduled[k].data.realTitle = "Alertas enviados"
  /\ \E k \in DOMAIN scheduled :
       /\ scheduled[k].title = testMessages[scheduled[k].data.priority].title
       /\ scheduled[k].body = testMessages[scheduled[k].data.priority].body

\* C13: a sendSecureNotification call made while settings.enabled is false
\* (directly or through sendEmergencyAlert or testNotification) schedules
\* nothing and leaves the history in memory and the store unchanged.
C13_DisabledSendsNothing ==
  [][(ret' # ret /\ ret'.op = "sendSecureNotification" /\ ~settings.enabled) =>
       /\ scheduled' = scheduled
       /\ notificationHistory' = notificationHistory
       /\ storage' = storage]_vars

\* the last call was a send made with notifications disabled, after an earlier
\* send that was scheduled and recorded
C13_Witness ==
  /\ ret.op = "sendSecureNotification"
  /\ ~settings.enabled
  /\ Len(scheduled) = 1
  /\ Len(notificationHistory) = 1
  /\ Has("notificationHistory") /\ Len(storage["notificationHistory"]) = 1

\* the history stored under 'notificationHistory', empty when the key is absent
StoredHistory == IF Has("notificationHistory") THEN storage["notificationHistory"] ELSE <<>>

NewestFirst(h) == \A k \in 1..(Len(h) - 1) : h[k].timestamp[2] >= h[k + 1].timestamp[2]

\* the first n entries of h
Newest(h, n) == SubSeq(h, 1, IF Len(h) < n THEN Len(h) ELSE n)

\* C14: the history in memory and the stored one have at most 50 entries each,
\* newest first, and are the 50 most recently sent notifications: a
\* notification that is sent becomes the first entry of both, followed by the
\* 49 newest of those recorded before it.
C14_HistoryBound ==
  /\ [](/\ Len(notificationHistory) <= 50 /\ NewestFirst(notificationHistory)
        /\ Len(StoredHistory) <= 50 /\ NewestFirst(StoredHistory))
  /\ [][Len(scheduled') = Len(scheduled) + 1 =>
          LET sent == scheduled'[Len(scheduled')].data
          IN /\ StoredHistory' # <<>>
             /\ StoredHistory'[1].realTitle = sent.realTitle
             /\ StoredHistory'[1].realBody = sent.realBody
             /\ StoredHistory'[1].timestamp = sent.timestamp
             /\ Tail(StoredHistory') = Newest(StoredHistory, 49)
             /\ HistoryToJSON(notificationHistory') = StoredHistory']_vars

====
